---- MODULE Spec2Model ----
(***************************************************************************)
(* Portfolio manager (tanyacharan/dsci560-lab3).                           *)
(*                                                                         *)
(* Two programs are modelled:                                              *)
(*   - src/portfolio_manager_refactored.py: the shared-store variant       *)
(*     (tables portfolios / portfolio_stocks, PortfolioManager methods,    *)
(*     portfolio_creation_flow), specification Spec;                       *)
(*   - src/st.py: the per-user-database variant (add_stock / delete_stock  *)
(*     on the tenant's time-series table), and the prototype               *)
(*     src/legacy/portfolio_manager_prototype.py (populate_portfolio),     *)
(*     specification SpecIngest.                                           *)
(*                                                                         *)
(* Every handler is one atomic action (the programs are single-actor).     *)
(* The store is MySQL/InnoDB with autocommit off (the connector default):  *)
(* a statement that raises undoes only itself, rollback() undoes every     *)
(* write of the transaction, AUTO_INCREMENT values are never given back.   *)
(* Strings that the code inspects character by character (tickers,         *)
(* periods) are sequences of one-character strings.                        *)
(***************************************************************************)
EXTENDS Integers, Sequences, FiniteSets, TLC

VARIABLES
    portfolios,        \* rows of table portfolios
    portfolio_stocks,  \* rows of table portfolio_stocks
    next_id,           \* AUTO_INCREMENT counter of portfolios.id
    today,             \* datetime.now().date(), a day number (one run is one day)
    last,              \* the last call: the handler and what it printed
    tenant,            \* st.py: database name -> rows of its portfolios table
    last_st,           \* st.py and prototype: the last call
    legacy,            \* prototype: table name -> rows of that table
    checked,           \* a validator call on its own: argument and outcome
    schema,            \* the relations that exist, and the last provisioning run
    scope,             \* the connection and cursor of the last scope, as it left them
    now,               \* CURRENT_TIMESTAMP of the store, in seconds
    last_edited_at,    \* portfolios.last_edited_at: portfolio id -> timestamp
    session            \* main: where the program is, who is logged in, table users

vars == <<portfolios, portfolio_stocks, next_id, today, last, tenant, last_st,
          legacy, checked, schema, scope, now, last_edited_at, session>>
pm_vars == <<portfolios, portfolio_stocks, next_id, today, last>>

(***************************************************************************)
(* Bounds of the model                                                     *)
(***************************************************************************)
MaxId == 2          \* portfolio INSERTs attempted in one run
MaxTickers == 2     \* length of a ticker list argument
MaxRows == 2        \* rows of one provider answer (st.py)
MaxLen == 3         \* length of the strings given to a validator
MaxNow == 2         \* seconds that pass in one run
MaxDays == 120      \* largest day count given to validate_period

(***************************************************************************)
(* Characters and strings                                                  *)
(***************************************************************************)
UpperCase == <<"A","B","C","D","E","F","G","H","I","J","K","L","M",
               "N","O","P","Q","R","S","T","U","V","W","X","Y","Z">>
LowerCase == <<"a","b","c","d","e","f","g","h","i","j","k","l","m",
               "n","o","p","q","r","s","t","u","v","w","x","y","z">>
Digits == <<"0","1","2","3","4","5","6","7","8","9">>

Range(f) == {f[i] : i \in DOMAIN f}
UpperLetters == Range(UpperCase)
LowerLetters == Range(LowerCase)
DigitChars == Range(Digits)

\* str.upper(), one character
upper_char(c) ==
    IF c \in LowerLetters
    THEN UpperCase[CHOOSE k \in DOMAIN LowerCase : LowerCase[k] = c]
    ELSE c

\* str.upper()
upper(s) == [i \in 1..Len(s) |-> upper_char(s[i])]

\* What a pattern anchored with $ is matched against: Python's $ also matches
\* just before a newline that ends the string.
before_dollar(s) ==
    IF Len(s) > 0 /\ s[Len(s)] = "\n" THEN SubSeq(s, 1, Len(s) - 1) ELSE s

\* re.match("^[A-Z]{1,5}$", s)
match_ticker(s) ==
    LET b == before_dollar(s)
    IN  /\ Len(b) >= 1
        /\ Len(b) <= 5
        /\ \A i \in 1..Len(b) : b[i] \in UpperLetters

\* validate_ticker: ok = no ValueError, val = the returned ticker
validate_ticker(ticker) ==
    [ok  |-> ticker # <<>> /\ match_ticker(upper(ticker)),
     val |-> upper(ticker)]

\* int() of a string of digits
RECURSIVE int_of(_)
int_of(s) ==
    IF s = <<>> THEN 0
    ELSE 10 * int_of(SubSeq(s, 1, Len(s) - 1))
         + (CHOOSE k \in DOMAIN Digits : Digits[k] = s[Len(s)]) - 1

valid_periods ==
    { <<"1","d">>, <<"5","d">>, <<"1","m","o">>, <<"3","m","o">>,
      <<"6","m","o">>, <<"1","y">>, <<"2","y">>, <<"5","y">>,
      <<"1","0","y">>, <<"y","t","d">>, <<"m","a","x">> }

\* re.match(r'^\d{1,2}d$', s) when maxDigits = 2, re.match(r'^\d+d$', s) when
\* maxDigits = 0 (no upper limit)
match_days(s, maxDigits) ==
    LET b == before_dollar(s)
    IN  /\ Len(b) >= 2
        /\ b[Len(b)] = "d"
        /\ \A i \in 1..(Len(b) - 1) : b[i] \in DigitChars
        /\ (maxDigits = 0 \/ Len(b) - 1 <= maxDigits)

\* validate_period without the check of the 60-day limit
validate_period_no_limit(period) ==
    [ok  |-> period \in valid_periods \/ match_days(period, 2),
     val |-> period]

\* validate_period: ok = no ValueError, val = the returned period
validate_period(period) ==
    LET listed == period \in valid_periods \/ match_days(period, 2)
        days == int_of(SubSeq(period, 1, Len(period) - 1))
    IN  [ok  |-> /\ listed
                 \* int("5d") raises ValueError when a newline follows the d
                 /\ (match_days(period, 0) =>
                        period[Len(period)] = "d" /\ days <= 60),
         val |-> period]

intraday_intervals == {"1m", "2m", "5m", "15m", "30m", "60m", "90m", "1h"}
interday_intervals == {"1d", "5d", "1wk", "1mo", "3mo"}

\* validate_interval: ok = no ValueError
validate_interval(interval) ==
    [ok        |-> interval \in intraday_intervals \cup interday_intervals,
     data_type |-> IF interval \in intraday_intervals THEN "intraday"
                   ELSE "interday",
     interval  |-> interval]

(***************************************************************************)
(* Dates.  A date string is the sequence <<year, month, day>> of the       *)
(* numbers it spells, or a sequence of another length when it does not     *)
(* have the shape YYYY-MM-DD.  A date is its day number, counted from      *)
(* 2023-01-01 = 1 (the model stays inside the non-leap years 2022, 2023).  *)
(***************************************************************************)
days_before_month == <<0, 31, 59, 90, 120, 151, 181, 212, 243, 273, 304, 334>>
days_in_month == <<31, 28, 31, 30, 31, 30, 31, 31, 30, 31, 30, 31>>

\* validate_date: datetime.strptime(date_str, "%Y-%m-%d").date()
validate_date(date_str) ==
    LET shaped == Len(date_str) = 3
        ok == /\ shaped
              /\ date_str[1] \in 1..9999
              /\ date_str[2] \in 1..12
              /\ date_str[3] \in 1..days_in_month[date_str[2]]
    IN  [ok  |-> ok,
         val |-> IF ok
                 THEN (date_str[1] - 2023) * 365
                      + days_before_month[date_str[2]] + date_str[3]
                 ELSE 0]

(***************************************************************************)
(* Values                                                                  *)
(***************************************************************************)
None == 0                    \* Python None where an id is expected
NullDate == 0                \* SQL NULL in a DATE column
NullPeriod == <<"NULL">>     \* SQL NULL in the period column

Users == {1, 2}
OneUser == {1}
Names == {"core"}
RawTickers == { <<"A">>, <<"b">>, <<"A", "1">> }
TickerLists == UNION { [1..n -> RawTickers] : n \in 0..MaxTickers }
IntervalInputs == {"5m", "1d"}
PeriodInputs == { <<"6","0","d">>, <<"9","0","d">>, <<"x">> }
\* the lists typed at the creation prompt: one ticker, two, a repeat, a bad one
CreationTickerInputs == { <<<<"A">>>>, <<<<"A">>, <<"b">>>>, <<<<"A">>, <<"a">>>>,
                          <<<<"b">>, <<"A", "1">>>> }
\* the inputs of the two-user runs: one ticker
SingleTicker == { <<"A">> }
SingleTickerLists == { <<>>, <<<<"A">>>> }
SingleCreationInputs == { <<<<"A">>>> }
DateInputs == { <<2023,1,1>>, <<2023,1,2>>, <<2023,1,3>>, <<2023,2,30>> }
ValidDates == {d \in DateInputs : validate_date(d).ok}
NoDate == <<>>               \* the empty input line

\* What goes wrong during one call: nothing, the connection of the name
\* lookup, the k-th statement of the transaction (or its commit), the provider
NoFault == [lookup_ok |-> TRUE, fault |-> 0, answer |-> "rows"]
LookupFaults == { [NoFault EXCEPT !.lookup_ok = FALSE] }
StoreFaults == { [NoFault EXCEPT !.fault = k] : k \in 1..(MaxTickers + 2) }
ProviderFaults == { [NoFault EXCEPT !.answer = a] : a \in {"empty", "error"} }

PmEnvs == {NoFault} \cup LookupFaults \cup StoreFaults \cup ProviderFaults

db == [p |-> portfolios, s |-> portfolio_stocks]

\* What is kept of a call: the operation, the outcome the caller reads (the
\* last message printed) and what became of the provider request
Idle == [op |-> "none", msg |-> "none", fetch |-> "none", listed |-> <<>>]

(***************************************************************************)
(* get_db_cursor: the body's writes are committed if it completes and      *)
(* rolled back if it raises.  pre is the store when the transaction        *)
(* starts, work the store as the body left it.                             *)
(***************************************************************************)
get_db_cursor_autocommit(pre, work, raised) == work

get_db_cursor(pre, work, raised) == IF raised THEN pre ELSE work

(***************************************************************************)
(* DataFetcher.fetch_data: raises when the provider errors or returns no   *)
(* rows; answer is what the provider does ("rows", "empty", "error").      *)
(***************************************************************************)
ProviderAnswers == {"rows", "empty", "error"}

\* fetch_data without the data.empty test of line 236
fetch_data_passes_empty(answer) == IF answer = "error" THEN "fail" ELSE "ok"

fetch_data(answer) == IF answer = "rows" THEN "ok" ELSE "fail"

(***************************************************************************)
(* PortfolioManager.get_portfolio_id_by_name                               *)
(***************************************************************************)
get_portfolio_id_by_name_any_user(p, user_id, name, lookup_ok) ==
    IF ~lookup_ok THEN None
    ELSE IF \E r \in p : r.name = name
         THEN (CHOOSE r \in p : r.name = name).id
         ELSE None

get_portfolio_id_by_name(p, user_id, name, lookup_ok) ==
    IF ~lookup_ok THEN None
    ELSE IF \E r \in p : r.user_id = user_id /\ r.name = name
         THEN (CHOOSE r \in p : r.user_id = user_id /\ r.name = name).id
         ELSE None

Members(s, pid) == {r.ticker : r \in {x \in s : x.portfolio_id = pid}}

Row(p, pid) == CHOOSE r \in p : r.id = pid

AllValid(tickers) == \A i \in 1..Len(tickers) : validate_ticker(tickers[i]).ok

Validated(tickers) == [i \in 1..Len(tickers) |-> validate_ticker(tickers[i]).val]

(***************************************************************************)
(* PortfolioManager.create_portfolio                                       *)
(*   fault  = k > 0: the k-th cursor.execute of the transaction raises a   *)
(*            store error (not an integrity error); one past the last      *)
(*            statement: commit() raises                                   *)
(*   answer = what the provider does when asked                            *)
(* The result carries the store after the call, the return value, the      *)
(* message the caller reads last, and whether an id was consumed.          *)
(***************************************************************************)
\* lines 285-289: INSERT INTO portfolio_stocks, one ticker after the other;
\* the primary key (portfolio_id, ticker) raises IntegrityError on a repeat
RECURSIVE create_insert_stocks(_, _, _, _, _)
create_insert_stocks(s, pid, vt, i, fault) ==
    IF i > Len(vt) THEN [s |-> s, exc |-> "none"]
    ELSE IF fault = i + 1 THEN [s |-> s, exc |-> "Error"]
    ELSE IF [portfolio_id |-> pid, ticker |-> vt[i]] \in s
         THEN [s |-> s, exc |-> "IntegrityError"]
    ELSE create_insert_stocks(
             s \cup {[portfolio_id |-> pid, ticker |-> vt[i]]},
             pid, vt, i + 1, fault)

\* create_tables, UNIQUE KEY unique_user_portfolio (user_id, name): whether
\* inserting a row for (user_id, name) violates it
unique_key_absent(p, user_id, name) == FALSE

unique_user_portfolio(p, user_id, name) ==
    \E r \in p : r.user_id = user_id /\ r.name = name

\* lines 262-280: the metadata row
new_portfolio_row_never_readonly(pid, user_id, name, data_type, kwargs) ==
    [id           |-> pid,
     user_id      |-> user_id,
     name         |-> name,
     data_type    |-> data_type,
     start_date   |-> IF data_type = "intraday" THEN NullDate ELSE kwargs.start,
     end_date     |-> IF data_type = "intraday" THEN NullDate ELSE kwargs.end,
     period       |-> IF data_type = "intraday" THEN kwargs.period ELSE NullPeriod,
     interval_str |-> kwargs.interval,
     is_readonly  |-> FALSE]

new_portfolio_row(pid, user_id, name, data_type, kwargs) ==
    [id           |-> pid,
     user_id      |-> user_id,
     name         |-> name,
     data_type    |-> data_type,
     start_date   |-> IF data_type = "intraday" THEN NullDate ELSE kwargs.start,
     end_date     |-> IF data_type = "intraday" THEN NullDate ELSE kwargs.end,
     period       |-> IF data_type = "intraday" THEN kwargs.period ELSE NullPeriod,
     interval_str |-> kwargs.interval,
     is_readonly  |-> (data_type = "intraday")]

create_portfolio(d, nid, user_id, name, tickers, data_type, kwargs, fault, answer) ==
    LET nochange(msg, used) ==
            [db |-> d, ret_id |-> None, msg |-> msg, fetch |-> "none",
             id_used |-> used]
    IN
    IF name = "" \/ Len(name) > 50 THEN nochange("failed", FALSE)
    ELSE IF ~AllValid(tickers) THEN nochange("failed", FALSE)
    ELSE
    LET vt == Validated(tickers)
        row == new_portfolio_row(nid, user_id, name, data_type, kwargs)
        dup == unique_user_portfolio(d.p, user_id, name)
    IN
    IF fault = 1 THEN nochange("failed", FALSE)
    ELSE IF dup THEN nochange("dup_name", TRUE)
    ELSE
    LET ins == create_insert_stocks(d.s, nid, vt, 1, fault)
        work == [p |-> d.p \cup {row}, s |-> ins.s]
        fetched == IF ins.exc = "none" THEN fetch_data(answer) ELSE "none"
        commit_fails == fault = Len(vt) + 2
        raised == ins.exc # "none" \/ fetched = "fail" \/ commit_fails
    IN  [db      |-> get_db_cursor(d, work, raised),
         ret_id  |-> IF raised THEN None ELSE nid,
         msg     |-> IF ins.exc = "IntegrityError" THEN "dup_name"
                     ELSE IF raised THEN "failed" ELSE "created",
         fetch   |-> fetched,
         id_used |-> TRUE]

(***************************************************************************)
(* PortfolioManager.add_stocks                                              *)
(***************************************************************************)
\* the INSERT loop without the except IntegrityError of line 476: a ticker
\* that is already a member ends the batch
RECURSIVE add_insert_stocks_abort_on_duplicate(_, _, _, _, _, _)
add_insert_stocks_abort_on_duplicate(s, pid, vt, i, fault, added) ==
    IF i > Len(vt) THEN [s |-> s, exc |-> "none", added |-> added]
    ELSE IF fault = i + 1 THEN [s |-> s, exc |-> "Error", added |-> added]
    ELSE IF [portfolio_id |-> pid, ticker |-> vt[i]] \in s
         THEN [s |-> s, exc |-> "IntegrityError", added |-> added]
    ELSE add_insert_stocks_abort_on_duplicate(
             s \cup {[portfolio_id |-> pid, ticker |-> vt[i]]},
             pid, vt, i + 1, fault, added + 1)

\* lines 469-478: INSERT one ticker after the other; an IntegrityError (the
\* ticker is already a member) is caught and the loop goes on
RECURSIVE add_insert_stocks(_, _, _, _, _, _)
add_insert_stocks(s, pid, vt, i, fault, added) ==
    IF i > Len(vt) THEN [s |-> s, exc |-> "none", added |-> added]
    ELSE IF fault = i + 1 THEN [s |-> s, exc |-> "Error", added |-> added]
    ELSE IF [portfolio_id |-> pid, ticker |-> vt[i]] \in s
         THEN add_insert_stocks(s, pid, vt, i + 1, fault, added)
    ELSE add_insert_stocks(
             s \cup {[portfolio_id |-> pid, ticker |-> vt[i]]},
             pid, vt, i + 1, fault, added + 1)

\* lines 461-463: the read-only gate of add_stocks
add_blocked_never(row) == FALSE

add_blocked(row) == row.is_readonly

add_stocks(d, portfolio_name, user_id, tickers, lookup_ok, fault) ==
    LET pid == get_portfolio_id_by_name(d.p, user_id, portfolio_name, lookup_ok)
        fail(msg) == [db |-> d, ret_ok |-> FALSE, msg |-> msg]
    IN
    IF pid = None THEN fail("not_found")
    ELSE IF fault = 1 THEN fail("error")
    ELSE IF ~\E r \in d.p : r.id = pid /\ r.user_id = user_id
         THEN fail("not_found_or_denied")
    ELSE IF add_blocked(Row(d.p, pid)) THEN fail("readonly")
    ELSE IF ~AllValid(tickers) THEN fail("error")
    ELSE
    LET ins == add_insert_stocks(d.s, pid, Validated(tickers), 1, fault, 0)
        commit_fails == fault = Len(tickers) + 2
        raised == ins.exc # "none" \/ commit_fails
    IN  [db     |-> get_db_cursor(d, [p |-> d.p, s |-> ins.s], raised),
         ret_ok |-> ~raised /\ ins.added > 0,
         msg    |-> IF raised THEN "error"
                    ELSE IF ins.added > 0 THEN "added" ELSE "none_added"]

(***************************************************************************)
(* PortfolioManager.remove_stocks                                           *)
(***************************************************************************)
\* the DELETE without "portfolio_id = %s" in its WHERE clause
RECURSIVE remove_delete_stocks_any_portfolio(_, _, _, _, _, _)
remove_delete_stocks_any_portfolio(s, pid, vt, i, fault, removed) ==
    IF i > Len(vt) THEN [s |-> s, exc |-> "none", removed |-> removed]
    ELSE IF fault = i + 1 THEN [s |-> s, exc |-> "Error", removed |-> removed]
    ELSE IF \E x \in s : x.ticker = vt[i]
         THEN remove_delete_stocks_any_portfolio(
                  {x \in s : x.ticker # vt[i]},
                  pid, vt, i + 1, fault, removed + 1)
    ELSE remove_delete_stocks_any_portfolio(s, pid, vt, i + 1, fault, removed)

\* lines 513-523: DELETE one ticker after the other, counting by rowcount
RECURSIVE remove_delete_stocks(_, _, _, _, _, _)
remove_delete_stocks(s, pid, vt, i, fault, removed) ==
    IF i > Len(vt) THEN [s |-> s, exc |-> "none", removed |-> removed]
    ELSE IF fault = i + 1 THEN [s |-> s, exc |-> "Error", removed |-> removed]
    ELSE IF [portfolio_id |-> pid, ticker |-> vt[i]] \in s
         THEN remove_delete_stocks(
                  s \ {[portfolio_id |-> pid, ticker |-> vt[i]]},
                  pid, vt, i + 1, fault, removed + 1)
    ELSE remove_delete_stocks(s, pid, vt, i + 1, fault, removed)

\* lines 499-507: the only gate of remove_stocks is ownership
remove_verify_mutable_only(p, pid, user_id) ==
    \E r \in p : r.id = pid /\ r.user_id = user_id /\ ~r.is_readonly

remove_verify(p, pid, user_id) ==
    \E r \in p : r.id = pid /\ r.user_id = user_id

remove_stocks(d, portfolio_name, user_id, tickers, lookup_ok, fault) ==
    LET pid == get_portfolio_id_by_name(d.p, user_id, portfolio_name, lookup_ok)
        fail(msg) == [db |-> d, ret_ok |-> FALSE, msg |-> msg]
    IN
    IF pid = None THEN fail("not_found")
    ELSE IF fault = 1 THEN fail("error")
    ELSE IF ~remove_verify(d.p, pid, user_id)
         THEN fail("not_found_or_denied")
    ELSE IF ~AllValid(tickers) THEN fail("error")
    ELSE
    LET del == remove_delete_stocks(d.s, pid, Validated(tickers), 1, fault, 0)
        commit_fails == fault = Len(tickers) + 2
        raised == del.exc # "none" \/ commit_fails
    IN  [db     |-> get_db_cursor(d, [p |-> d.p, s |-> del.s], raised),
         ret_ok |-> ~raised /\ del.removed > 0,
         msg    |-> IF raised THEN "error"
                    ELSE IF del.removed > 0 THEN "removed" ELSE "none_removed"]

(***************************************************************************)
(* PortfolioManager.update_interval                                         *)
(***************************************************************************)
\* lines 559-565: intraday and read-only portfolios are refused
update_blocked_never(row) == "none"

update_blocked(row) ==
    IF row.data_type = "intraday" THEN "intraday_readonly"
    ELSE IF row.is_readonly THEN "readonly"
    ELSE "none"

\* lines 571-577: the range checks, against the date of the call
range_refused_lenient(start_dt, end_dt, now_date) ==
    IF start_dt > end_dt THEN "start_not_before_end"
    ELSE IF end_dt > now_date THEN "end_in_future"
    ELSE "none"

range_refused(start_dt, end_dt, now_date) ==
    IF start_dt >= end_dt THEN "start_not_before_end"
    ELSE IF end_dt > now_date THEN "end_in_future"
    ELSE "none"

\* lines 579-584: UPDATE portfolios SET start_date, end_date WHERE id
\* an UPDATE that also sets is_readonly
update_dates_locks(p, pid, start_dt, end_dt) ==
    {IF r.id = pid
     THEN [r EXCEPT !.start_date = start_dt, !.end_date = end_dt,
                    !.is_readonly = TRUE]
     ELSE r : r \in p}

update_dates_start_only(p, pid, start_dt, end_dt) ==
    {IF r.id = pid THEN [r EXCEPT !.start_date = start_dt] ELSE r : r \in p}

update_dates_all_rows(p, pid, start_dt, end_dt) ==
    {[r EXCEPT !.start_date = start_dt, !.end_date = end_dt] : r \in p}

update_dates(p, pid, start_dt, end_dt) ==
    {IF r.id = pid
     THEN [r EXCEPT !.start_date = start_dt, !.end_date = end_dt]
     ELSE r : r \in p}

update_interval(d, portfolio_name, user_id, start_date, end_date, now_date, lookup_ok, fault, answer) ==
    LET pid == get_portfolio_id_by_name(d.p, user_id, portfolio_name, lookup_ok)
        fail(msg) == [db |-> d, ret_ok |-> FALSE, msg |-> msg, fetch |-> "none"]
    IN
    IF pid = None THEN fail("not_found")
    ELSE IF fault = 1 THEN fail("error")
    ELSE IF ~\E r \in d.p : r.id = pid /\ r.user_id = user_id
         THEN fail("not_found_or_denied")
    ELSE IF update_blocked(Row(d.p, pid)) # "none"
         THEN fail(update_blocked(Row(d.p, pid)))
    ELSE IF ~validate_date(start_date).ok \/ ~validate_date(end_date).ok
         THEN fail("invalid_input")
    ELSE
    LET start_dt == validate_date(start_date).val
        end_dt == validate_date(end_date).val
        refused == range_refused(start_dt, end_dt, now_date)
    IN
    IF refused # "none" THEN fail(refused)
    ELSE IF fault = 2 THEN fail("error")
    ELSE
    LET work == [p |-> update_dates(d.p, pid, start_dt, end_dt), s |-> d.s]
        \* lines 588-604: refetch only if the portfolio has stocks; a failed
        \* refetch is caught and printed as a warning
        fetched == IF Members(d.s, pid) # {} THEN fetch_data(answer) ELSE "none"
        commit_fails == fault = 3
    IN  [db     |-> get_db_cursor(d, work, commit_fails),
         ret_ok |-> ~commit_fails,
         msg    |-> IF commit_fails THEN "error" ELSE "updated",
         fetch  |-> fetched]

(***************************************************************************)
(* PortfolioManager.show_portfolio_summary and get_portfolio_data: they    *)
(* read the store and write nothing                                        *)
(***************************************************************************)
\* fault = 1: the SELECT raises; fault = 2: the commit raises, after the
\* summary is printed
show_portfolio_summary(d, portfolio_name, user_id, lookup_ok, fault) ==
    LET pid == get_portfolio_id_by_name(d.p, user_id, portfolio_name, lookup_ok)
        nothing(msg) == [msg |-> msg, shown |-> <<>>]
    IN
    IF pid = None THEN nothing("not_found")
    ELSE IF fault = 1 THEN nothing("error")
    ELSE IF ~\E r \in d.p : r.id = pid THEN nothing("not_found")
    ELSE [msg   |-> IF fault = 2 THEN "error" ELSE "shown",
          shown |-> <<Row(d.p, pid), Members(d.s, pid)>>]

\* a fetch that fails raises inside the with block and is caught at line 436
get_portfolio_data(d, portfolio_name, user_id, lookup_ok, fault, answer) ==
    LET pid == get_portfolio_id_by_name(d.p, user_id, portfolio_name, lookup_ok)
        none(msg, fetch) == [ret |-> "None", msg |-> msg, fetch |-> fetch]
    IN
    IF pid = None THEN none("not_found", "none")
    ELSE IF fault = 1 THEN none("error", "none")
    ELSE IF ~\E r \in d.p : r.id = pid /\ r.user_id = user_id
         THEN none("not_found_or_denied", "none")
    ELSE IF Members(d.s, pid) = {}
         THEN none(IF fault = 2 THEN "error" ELSE "no_stocks", "none")
    ELSE IF fetch_data(answer) = "fail" THEN none("error", "fail")
    ELSE IF fault = 2 THEN none("error", "ok")
    ELSE [ret |-> "data", msg |-> "none", fetch |-> "ok"]

(***************************************************************************)
(* Actions of the shared-store program                                     *)
(***************************************************************************)
\* last_edited_at TIMESTAMP DEFAULT CURRENT_TIMESTAMP ON UPDATE
\* CURRENT_TIMESTAMP (line 879): a row gets the time of the statement when it
\* is inserted and when an UPDATE changes one of its columns; p_old and p_new
\* are the committed rows before and after the transaction
on_update(p_old, p_new, stamps, t) ==
    [pid \in {row.id : row \in p_new} |->
        IF \E row \in p_new : row.id = pid /\ row \notin p_old
        THEN t ELSE stamps[pid]]

TimeInit ==
    /\ now = 1
    /\ last_edited_at = <<>>

\* before main runs: nobody is registered, nobody is logged in
NoSession ==
    [pc |-> "start", user_id |-> None, users |-> {}, choice |-> "none",
     out |-> "none"]

PmInit ==
    /\ portfolios = {}
    /\ portfolio_stocks = {}
    /\ next_id = 1
    /\ today = 2
    /\ last = Idle

\* portfolio_creation_flow: every prompt loops until its input validates, so
\* the inputs that reach line 1151 are the validated ones
CreationFlowCall(user_id, name, raw_tickers, interval, period, start_str, end_str, fault, answer) ==
    LET iv == validate_interval(interval)
        tickers_up == [i \in 1..Len(raw_tickers) |-> upper(raw_tickers[i])]
        start_dt == validate_date(start_str).val
        end_dt == IF end_str = NoDate THEN today ELSE validate_date(end_str).val
        kwargs == IF iv.data_type = "intraday"
                  THEN [interval |-> iv.interval, period |-> validate_period(period).val,
                        start |-> NullDate, end |-> NullDate]
                  ELSE [interval |-> iv.interval, period |-> NullPeriod,
                        start |-> start_dt, end |-> end_dt]
        call == [Idle EXCEPT !.op = "create_portfolio"]
    IN
    /\ iv.ok
    /\ iv.data_type = "intraday" => validate_period(period).ok
    /\ iv.data_type = "interday" =>
          /\ validate_date(start_str).ok
          /\ end_str = NoDate \/ validate_date(end_str).ok
    /\ IF iv.data_type = "interday" /\ start_dt >= end_dt
       THEN /\ last' = [call EXCEPT !.op = "creation_flow",
                                    !.msg = "start_not_before_end"]
            /\ UNCHANGED <<portfolios, portfolio_stocks, next_id>>
       ELSE LET r == create_portfolio(db, next_id, user_id, name, tickers_up,
                                      iv.data_type, kwargs, fault, answer)
            IN  /\ portfolios' = r.db.p
                /\ portfolio_stocks' = r.db.s
                /\ next_id' = IF r.id_used THEN next_id + 1 ELSE next_id
                /\ last' = [call EXCEPT !.msg = r.msg, !.fetch = r.fetch]
    /\ last_edited_at' = on_update(portfolios, portfolios', last_edited_at, now)
    /\ UNCHANGED <<today, tenant, last_st, legacy, checked, schema, scope, now, session>>

portfolio_creation_flow(U, N, C) ==
    /\ next_id <= MaxId
    /\ \E user_id \in U, name \in N,
          raw_tickers \in C,
          interval \in IntervalInputs,
          env \in {NoFault} \cup StoreFaults \cup ProviderFaults :
          \/ \E period \in PeriodInputs :
                /\ validate_interval(interval).data_type = "intraday"
                /\ CreationFlowCall(user_id, name, raw_tickers, interval, period,
                                    NoDate, NoDate, env.fault, env.answer)
          \/ \E start_str \in DateInputs, end_str \in DateInputs \cup {NoDate} :
                /\ validate_interval(interval).data_type = "interday"
                /\ CreationFlowCall(user_id, name, raw_tickers, interval, <<>>,
                                    start_str, end_str, env.fault, env.answer)

AddStocks(U, N, L) ==
    \E user_id \in U, name \in N, tickers \in L,
       env \in {NoFault} \cup LookupFaults \cup StoreFaults :
       LET r == add_stocks(db, name, user_id, tickers, env.lookup_ok, env.fault)
       IN  /\ portfolios' = r.db.p
           /\ portfolio_stocks' = r.db.s
           /\ last' = [Idle EXCEPT !.op = "add_stocks", !.msg = r.msg]
           /\ last_edited_at' = on_update(portfolios, r.db.p, last_edited_at, now)
           /\ UNCHANGED <<next_id, today, tenant, last_st, legacy, checked, schema, scope,
                          now, session>>

RemoveStocks(U, N, L) ==
    \E user_id \in U, name \in N, tickers \in L,
       env \in {NoFault} \cup LookupFaults \cup StoreFaults :
       LET r == remove_stocks(db, name, user_id, tickers, env.lookup_ok, env.fault)
       IN  /\ portfolios' = r.db.p
           /\ portfolio_stocks' = r.db.s
           /\ last' = [Idle EXCEPT !.op = "remove_stocks", !.msg = r.msg]
           /\ last_edited_at' = on_update(portfolios, r.db.p, last_edited_at, now)
           /\ UNCHANGED <<next_id, today, tenant, last_st, legacy, checked, schema, scope,
                          now, session>>

UpdateInterval(U, N, D) ==
    \E user_id \in U, name \in N,
       start_date \in D, end_date \in D,
       env \in {NoFault} \cup LookupFaults \cup StoreFaults \cup ProviderFaults :
       LET r == update_interval(db, name, user_id, start_date, end_date, today,
                                env.lookup_ok, env.fault, env.answer)
       IN  /\ portfolios' = r.db.p
           /\ portfolio_stocks' = r.db.s
           /\ last' = [Idle EXCEPT !.op = "update_interval", !.msg = r.msg, !.fetch = r.fetch]
           /\ last_edited_at' = on_update(portfolios, r.db.p, last_edited_at, now)
           /\ UNCHANGED <<next_id, today, tenant, last_st, legacy, checked, schema, scope,
                          now, session>>

ShowPortfolioSummary(U, N) ==
    \E user_id \in U, name \in N,
       env \in {NoFault} \cup LookupFaults \cup StoreFaults :
       LET r == show_portfolio_summary(db, name, user_id, env.lookup_ok, env.fault)
       IN  /\ last' = [Idle EXCEPT !.op = "show_portfolio_summary", !.msg = r.msg]
           /\ UNCHANGED <<portfolios, portfolio_stocks, next_id, today,
                          tenant, last_st, legacy, checked, schema, scope, now, last_edited_at, session>>

GetPortfolioData(U, N) ==
    \E user_id \in U, name \in N, env \in PmEnvs :
       LET r == get_portfolio_data(db, name, user_id, env.lookup_ok, env.fault,
                                   env.answer)
       IN  /\ last' = [Idle EXCEPT !.op = "get_portfolio_data", !.msg = r.msg,
                                   !.fetch = r.fetch]
           /\ UNCHANGED <<portfolios, portfolio_stocks, next_id, today,
                          tenant, last_st, legacy, checked, schema, scope, now, last_edited_at, session>>

(***************************************************************************)
(* st.py: one database per user, one table of (ticker, date) points        *)
(***************************************************************************)
Usernames == {"ann", "bob"}
OneUsername == {"ann"}

\* db_name_for, with DB_NAME_PREFIX at its default
db_name_for(username) == <<"user_", username>>

\* round(float(x), 2): prices are in thousandths, stored prices in hundredths
\* (no price of the model lies halfway between two hundredths)
round2(x) == (x + 5) \div 10

\* What the provider returns for history(period="5d"): rows in date order,
\* one per trading day
ProviderRows ==
    { [date |-> 1, Open |-> 10004, Close |-> 10106, Volume |-> 100],
      [date |-> 1, Open |-> 20004, Close |-> 20106, Volume |-> 200],
      [date |-> 2, Open |-> 10106, Close |-> 10208, Volume |-> 300] }
Histories ==
    { h \in UNION { [1..n -> ProviderRows] : n \in 0..MaxRows } :
        \A i \in 1..(Len(h) - 1) : h[i].date < h[i + 1].date }

HasKey(tbl, ticker, date) == \E r \in tbl : r.ticker = ticker /\ r.date = date

\* INSERT IGNORE INTO portfolios: a row whose (ticker, date) is taken by the
\* unique key uniq_ticker_date is dropped; rowcount is the rows inserted
insert_ignore_overwrite(tbl, row) ==
    [tbl      |-> {r \in tbl : ~(r.ticker = row.ticker /\ r.date = row.date)}
                  \cup {row},
     rowcount |-> 1]

insert_ignore_no_key(tbl, row) == [tbl |-> tbl \cup {row}, rowcount |-> 1]

insert_ignore(tbl, row) ==
    IF HasKey(tbl, row.ticker, row.date)
    THEN [tbl |-> tbl, rowcount |-> 0]
    ELSE [tbl |-> tbl \cup {row}, rowcount |-> 1]

\* lines 220-231 of add_stock
RECURSIVE add_stock_rows(_, _, _, _, _, _)
add_stock_rows(tbl, ticker, hist, i, fault, inserted) ==
    IF i > Len(hist) THEN [tbl |-> tbl, exc |-> "none", inserted |-> inserted]
    ELSE IF fault = i THEN [tbl |-> tbl, exc |-> "Error", inserted |-> inserted]
    ELSE
    LET r == insert_ignore(tbl, [ticker |-> ticker,
                                 date   |-> hist[i].date,
                                 open   |-> round2(hist[i].Open),
                                 close  |-> round2(hist[i].Close),
                                 volume |-> hist[i].Volume])
    IN  add_stock_rows(r.tbl, ticker, hist, i + 1, fault, inserted + r.rowcount)

\* add_stock(current_user, ticker); hist is the provider's answer, fault = k
\* > 0 makes the k-th INSERT (one past the last: the commit) raise
add_stock(t, current_user, ticker, hist, fault) ==
    LET name == db_name_for(current_user)
        fail(msg) == [tenant |-> t, ok |-> FALSE, msg |-> msg, inserted |-> 0]
    IN
    IF ~validate_ticker(ticker).ok THEN fail("validation_error")
    ELSE IF hist = <<>> THEN fail("no_data")
    ELSE
    LET ins == add_stock_rows(t[name], validate_ticker(ticker).val, hist, 1,
                              fault, 0)
        raised == ins.exc # "none" \/ fault = Len(hist) + 1
        tbl == get_db_cursor(t[name], ins.tbl, raised)
    IN  IF raised THEN fail("error")
        ELSE [tenant   |-> [t EXCEPT ![name] = tbl],
              ok       |-> TRUE,
              msg      |-> IF ins.inserted > 0 THEN "added" ELSE "exists",
              inserted |-> ins.inserted]

\* delete_stock(current_user, ticker)
delete_stock(t, current_user, ticker, fault) ==
    LET name == db_name_for(current_user)
        fail(msg) == [tenant |-> t, ok |-> FALSE, msg |-> msg]
    IN
    IF ~validate_ticker(ticker).ok THEN fail("validation_error")
    ELSE IF fault > 0 THEN fail("error")
    ELSE
    LET gone == {r \in t[name] : r.ticker = validate_ticker(ticker).val}
    IN  IF gone = {} THEN fail("not_found")
        ELSE [tenant |-> [t EXCEPT ![name] = @ \ gone], ok |-> TRUE,
              msg |-> "deleted"]

(***************************************************************************)
(* legacy/portfolio_manager_prototype.py: one table per user in one        *)
(* database                                                                *)
(***************************************************************************)
\* create_user_portfolio_table: f"{username}_portfolio"
table_name_for(username) == <<username, "_portfolio">>

\* lines 46-50: INSERT IGNORE of every row of one ticker's history, values
\* as the provider gave them
RECURSIVE populate_rows(_, _, _, _)
populate_rows(tbl, ticker, hist, i) ==
    IF i > Len(hist) THEN tbl
    ELSE populate_rows(insert_ignore(tbl, [ticker |-> ticker,
                                           date   |-> hist[i].date,
                                           open   |-> hist[i].Open,
                                           close  |-> hist[i].Close,
                                           volume |-> hist[i].Volume]).tbl,
                       ticker, hist, i + 1)

\* lines 38-51: the loop over the tickers; an empty history is skipped
RECURSIVE populate_tickers(_, _, _, _)
populate_tickers(tbl, tickers, hists, k) ==
    IF k > Len(tickers) THEN tbl
    ELSE populate_tickers(populate_rows(tbl, upper(tickers[k]), hists[k], 1),
                          tickers, hists, k + 1)

\* populate_portfolio(username, tickers); hists[k] is the provider's answer
\* for the k-th ticker; fault = k > 0 makes the fetch or an INSERT of the
\* k-th ticker raise (one past the last: the commit).  Nothing catches the
\* exception and the one commit is the last statement (line 53): when
\* anything before it raises, the connection is dropped with nothing
\* committed
populate_portfolio(lg, username, tickers, hists, fault) ==
    IF fault \in 1..(Len(tickers) + 1) THEN lg
    ELSE [lg EXCEPT ![table_name_for(username)] =
                        populate_tickers(@, tickers, hists, 1)]

\* populate_portfolio: what lines 35-55 leave of the connection and cursor
\* they open.  Lines 53-55 (commit, cursor.close, conn.close) are reached
\* only when nothing before them raised; there is no try, no rollback and no
\* finally, so an exception leaves both open with the transaction neither
\* committed nor rolled back
populate_portfolio_exit(tickers, fault) ==
    IF fault \in 1..(Len(tickers) + 1)
    THEN [by |-> "populate_portfolio", path |-> "body_raises",
          conn |-> "open", cursor |-> "open", tx |-> "pending", raised |-> TRUE]
    ELSE [by |-> "populate_portfolio", path |-> "body_completes",
          conn |-> "closed", cursor |-> "closed", tx |-> "committed",
          raised |-> FALSE]

(***************************************************************************)
(* The scopes: get_db_cursor and user_db_cursor are the same generator.    *)
(* path is where the scope is left: the connection cannot be opened, the   *)
(* cursor cannot be opened, the body raises, the body returns from inside  *)
(* the with block, the body runs to its end, or the commit raises.         *)
(***************************************************************************)
ScopePaths == {"connect_fails", "cursor_fails", "body_raises", "body_returns",
               "body_completes", "commit_fails"}

NoScope == [by |-> "none", path |-> "none", conn |-> "none", cursor |-> "none",
            tx |-> "none", raised |-> FALSE]

\* try: conn, cursor, yield, commit; except: rollback if conn, raise;
\* finally: close the cursor if set, close the connection if set
get_db_cursor_exit(path) ==
    [by     |-> "get_db_cursor",
     path   |-> path,
     conn   |-> IF path = "connect_fails" THEN "none" ELSE "closed",
     cursor |-> IF path \in {"connect_fails", "cursor_fails"}
                THEN "none" ELSE "closed",
     tx     |-> IF path = "connect_fails" THEN "none"
                ELSE IF path \in {"body_returns", "body_completes"}
                     THEN "committed" ELSE "rolled_back",
     raised |-> path \notin {"body_returns", "body_completes"}]

user_db_cursor_exit(path) ==
    [get_db_cursor_exit(path) EXCEPT !.by = "user_db_cursor"]

GetDbCursor ==
    /\ \E path \in ScopePaths : scope' = get_db_cursor_exit(path)
    /\ UNCHANGED <<pm_vars, tenant, last_st, legacy, checked, schema, now, last_edited_at, session>>

UserDbCursor ==
    /\ \E path \in ScopePaths : scope' = user_db_cursor_exit(path)
    /\ UNCHANGED <<pm_vars, tenant, last_st, legacy, checked, schema, now, last_edited_at, session>>

(***************************************************************************)
(* Schema provisioning.  Of the shared database: which of the three        *)
(* relations exist, portfolios with or without its last_edited_at column   *)
(* ("full", "old").  Of st.py: per user, whether the database and its two  *)
(* tables exist.  A foreign key needs the relation it refers to.           *)
(***************************************************************************)
PmSchemas ==
    {s \in [users : BOOLEAN, portfolios : {"absent", "old", "full"},
            portfolio_stocks : BOOLEAN] :
        /\ s.portfolios # "absent" => s.users
        /\ s.portfolio_stocks => s.portfolios # "absent"}

Provisioned == [users |-> TRUE, portfolios |-> "full", portfolio_stocks |-> TRUE]

StSchemas ==
    {s \in [database : BOOLEAN, users : BOOLEAN, portfolios : BOOLEAN] :
        (s.users \/ s.portfolios) => s.database}

StProvisioned == [database |-> TRUE, users |-> TRUE, portfolios |-> TRUE]

\* create_tables.  Lines 835-852: COUNT(*) of the last_edited_at column of
\* portfolios is 0 when the column is missing and when the table is missing,
\* and ALTER TABLE portfolios raises when there is no such table; the
\* exception leaves create_tables, so lines 854-894 are not reached.
\* Lines 854-894: three CREATE TABLE IF NOT EXISTS
create_tables(s) ==
    LET count == IF s.portfolios = "full" THEN 1 ELSE 0
        altered == IF count = 0 THEN [s EXCEPT !.portfolios = "full"] ELSE s
    IN  IF count = 0 /\ s.portfolios = "absent"
        THEN [schema |-> s, raised |-> TRUE]
        ELSE [schema |-> [altered EXCEPT !.users = TRUE,
                                         !.portfolio_stocks = TRUE],
              raised |-> FALSE]

\* create_user_tables: CREATE DATABASE IF NOT EXISTS, then two CREATE TABLE
\* IF NOT EXISTS
create_user_tables(s) ==
    [schema |-> [s EXCEPT !.database = TRUE, !.users = TRUE, !.portfolios = TRUE],
     raised |-> FALSE]

\* every relation is there
SchemaReady ==
    [pm |-> Provisioned,
     st |-> [n \in {db_name_for(u) : u \in Usernames} |-> StProvisioned],
     op |-> "none", raised |-> FALSE, rows |-> {}]

\* a row that was stored before the provisioning run
SampleRow ==
    new_portfolio_row(1, 1, "core", "interday",
                      [interval |-> "1d", period |-> NullPeriod,
                       start |-> 1, end |-> 2])

CreateTables ==
    LET r == create_tables(schema.pm)
    IN  /\ schema' = [schema EXCEPT !.pm = r.schema, !.op = "create_tables",
                                    !.raised = r.raised, !.rows = portfolios]
        /\ UNCHANGED <<pm_vars, tenant, last_st, legacy, checked, scope, now, last_edited_at, session>>

CreateUserTables(U) ==
    \E username \in U :
       LET r == create_user_tables(schema.st[db_name_for(username)])
       IN  /\ schema' = [schema EXCEPT !.st[db_name_for(username)] = r.schema,
                                       !.op = "create_user_tables",
                                       !.raised = r.raised,
                                       !.rows = portfolios]
           /\ UNCHANGED <<pm_vars, tenant, last_st, legacy, checked, scope, now, last_edited_at, session>>

IdleSt == [op |-> "none", msg |-> "none", inserted |-> 0]

StInit ==
    /\ tenant = [n \in {db_name_for(u) : u \in Usernames} |-> {}]
    /\ last_st = IdleSt
    /\ legacy = [n \in {table_name_for(u) : u \in Usernames} |-> {}]

AddStock(U, T) ==
    \E current_user \in U, ticker \in T, hist \in Histories,
       fault \in 0..(MaxRows + 1) :
       LET r == add_stock(tenant, current_user, ticker, hist, fault)
       IN  /\ tenant' = r.tenant
           /\ last_st' = [op |-> "add_stock", msg |-> r.msg,
                          inserted |-> r.inserted]
           /\ UNCHANGED <<pm_vars, legacy, checked, schema, scope, now, last_edited_at, session>>

DeleteStock(U, T) ==
    \E current_user \in U, ticker \in T, fault \in 0..1 :
       LET r == delete_stock(tenant, current_user, ticker, fault)
       IN  /\ tenant' = r.tenant
           /\ last_st' = [op |-> "delete_stock", msg |-> r.msg, inserted |-> 0]
           /\ UNCHANGED <<pm_vars, legacy, checked, schema, scope, now, last_edited_at, session>>

PopulatePortfolio(U, L) ==
    \E username \in U, tickers \in L :
       \E hists \in [1..Len(tickers) -> Histories],
          fault \in 0..(Len(tickers) + 1) :
          /\ legacy' = populate_portfolio(legacy, username, tickers, hists, fault)
          /\ last_st' = [op |-> "populate_portfolio",
                         msg |-> IF fault > 0 THEN "error" ELSE "done",
                         inserted |-> 0]
          /\ scope' = populate_portfolio_exit(tickers, fault)
          /\ UNCHANGED <<pm_vars, tenant, checked, schema, now, last_edited_at, session>>

(***************************************************************************)
(* The validators on their own: a call is drawn, then made                 *)
(***************************************************************************)
Strings(alphabet, n) == UNION { [1..k -> alphabet] : k \in 0..n }

\* arguments of validate_ticker: every string of up to MaxLen characters of
\* an upper-case letter, a lower-case letter, a digit, a blank and a newline,
\* and strings of five and six characters
TickerStrings ==
    Strings({"A", "b", "1", " ", "\n"}, MaxLen)
    \cup { <<"A","B","C","D","E">>, <<"a","b","c","d","e">>,
           <<"A","B","C","D","E","F">>, <<"A","B","C","D","E","\n">>,
           <<"A","B","C","D","1">> }

Unchecked == [fn |-> "none", arg |-> <<>>, made |-> FALSE, ok |-> FALSE,
              val |-> <<>>]

ValidatorsInit ==
    /\ PmInit
    /\ StInit
    /\ checked \in {[Unchecked EXCEPT !.fn = "validate_ticker", !.arg = s] :
                        s \in TickerStrings}
    /\ schema = SchemaReady
    /\ scope = NoScope
    /\ TimeInit
    /\ session = NoSession

ValidateTicker ==
    /\ checked.fn = "validate_ticker"
    /\ ~checked.made
    /\ checked' = [checked EXCEPT !.made = TRUE,
                                  !.ok = validate_ticker(checked.arg).ok,
                                  !.val = IF validate_ticker(checked.arg).ok
                                          THEN validate_ticker(checked.arg).val
                                          ELSE <<>>]
    /\ UNCHANGED <<pm_vars, tenant, last_st, legacy, schema, scope, now, last_edited_at, session>>

SpecValidators == ValidatorsInit /\ [][ValidateTicker]_vars

\* provisioning started on a store in any state
SchemaInit ==
    /\ \E pm \in PmSchemas, st \in [{db_name_for(u) : u \in Usernames} -> StSchemas] :
          schema = [SchemaReady EXCEPT !.pm = pm, !.st = st]
    /\ portfolios \in (IF schema.pm.portfolios = "absent"
                       THEN {{}} ELSE {{}, {SampleRow}})
    /\ portfolio_stocks = {}
    /\ next_id = IF portfolios = {} THEN 1 ELSE 2
    /\ today = 2
    /\ last = Idle
    /\ StInit
    /\ checked = Unchecked
    /\ scope = NoScope
    /\ now = 1
    /\ last_edited_at = [pid \in {row.id : row \in portfolios} |-> now]
    /\ session = NoSession

NextSchema ==
    \/ CreateTables
    \/ CreateUserTables(Usernames)

SpecSchema == SchemaInit /\ [][NextSchema]_vars

Init ==
    /\ PmInit
    /\ StInit
    /\ checked = Unchecked
    /\ schema = SchemaReady
    /\ scope = NoScope
    /\ TimeInit
    /\ session = NoSession

(***************************************************************************)
(* PortfolioManager.list_portfolios: the names of the user's portfolios,   *)
(* ORDER BY last_edited_at DESC.  Rows of one timestamp come in any order, *)
(* so the result is one of a set of sequences.                             *)
(***************************************************************************)
ListingNames == {"core", "swing"}

list_portfolios(p, stamps, user_id) ==
    LET own == {row \in p : row.user_id = user_id}
        n == Cardinality(own)
        orders == {g \in [1..n -> own] :
                      /\ \A i \in 1..n, j \in 1..n : i # j => g[i] # g[j]
                      /\ \A i \in 1..n, j \in 1..n :
                            i < j => stamps[g[i].id] >= stamps[g[j].id]}
    IN  {[i \in 1..n |-> g[i].name] : g \in orders}

\* fault: the SELECT raises and "Error listing portfolios" is printed
ListPortfolios(U) ==
    \E user_id \in U, fault \in BOOLEAN :
       /\ \E listing \in list_portfolios(portfolios, last_edited_at, user_id) :
             last' = [Idle EXCEPT !.op = "list_portfolios",
                                  !.msg = IF fault THEN "error"
                                          ELSE IF listing = <<>> THEN "none_found"
                                          ELSE "listed",
                                  !.listed = IF fault THEN <<>> ELSE listing]
       /\ UNCHANGED <<portfolios, portfolio_stocks, next_id, today, tenant,
                      last_st, legacy, checked, schema, scope, now,
                      last_edited_at, session>>

\* a second passes
Tick ==
    /\ now < MaxNow
    /\ now' = now + 1
    /\ UNCHANGED <<pm_vars, tenant, last_st, legacy, checked, schema, scope,
                   last_edited_at, session>>

\* one user with two portfolio names, and time passing between the calls
NextListing ==
    \/ portfolio_creation_flow(OneUser, ListingNames, SingleCreationInputs)
    \/ AddStocks(OneUser, ListingNames, SingleTickerLists)
    \/ RemoveStocks(OneUser, ListingNames, SingleTickerLists)
    \/ UpdateInterval(OneUser, ListingNames, ValidDates)
    \/ ListPortfolios(OneUser)
    \/ Tick

SpecListing == Init /\ [][NextListing]_vars

(***************************************************************************)
(* main: create_tables, the authentication loop, the main menu loop.       *)
(* session.pc is where the program is: "start", "auth" (the loop of lines  *)
(* 1182-1218), "menu" (the loop of lines 1221-1246), "done" (main has      *)
(* returned).  session.users is the table users.                           *)
(***************************************************************************)
\* str.lower()
lower_char(c) ==
    IF c \in UpperLetters
    THEN LowerCase[CHOOSE k \in DOMAIN UpperCase : UpperCase[k] = c]
    ELSE c

lower(s) == [i \in 1..Len(s) |-> lower_char(s[i])]

\* validate_username: re.match("^[a-zA-Z0-9_]{3,30}$", username), lower-cased
validate_username(username) ==
    LET b == before_dollar(username)
    IN  [ok  |-> /\ Len(b) \in 3..30
                 /\ \A i \in 1..Len(b) :
                       b[i] \in UpperLetters \cup LowerLetters \cup DigitChars
                                \cup {"_"},
         val |-> lower(username)]

\* validate_password: eight characters or more, an upper-case letter, a
\* lower-case letter and a digit
validate_password(password) ==
    [ok  |-> /\ Len(password) >= 8
             /\ \E i \in 1..Len(password) : password[i] \in UpperLetters
             /\ \E i \in 1..Len(password) : password[i] \in LowerLetters
             /\ \E i \in 1..Len(password) : password[i] \in DigitChars,
     val |-> password]

\* hash_password: sha256 of password + salt, taken as one-to-one on the
\* strings it is given; a salt has a fixed length
hash_password(password, salt) == password \o salt

verify_password(password, stored_hash, salt) ==
    hash_password(password, salt) = stored_hash

Salts == { <<"e">>, <<"f">> }
MainUsernames == { <<"a","n","n">>, <<"A","n","n">>, <<"a","!">> }
MainPasswords == { <<"P","a","s","s","w","0","r","d">>,
                   <<"p","a","s","s","w","0","r","D">>,
                   <<"p","a","s","s","w","o","r","d">> }

\* register_user; salt is what secrets.token_hex gives, db_ok whether the
\* store can be reached.  The first row of users gets id 1, and the names
\* of the model all lower-case to one name, so no second row is inserted
register_user(users, username, password, salt, db_ok) ==
    LET name == validate_username(username).val
    IN  IF ~validate_username(username).ok \/ ~validate_password(password).ok
        THEN [users |-> users, ok |-> FALSE, out |-> "registration_failed"]
        ELSE IF ~db_ok
        THEN [users |-> users, ok |-> FALSE, out |-> "registration_failed"]
        ELSE IF \E u \in users : u.username = name
        THEN [users |-> users, ok |-> FALSE, out |-> "username_exists"]
        ELSE [users |-> users \cup
                        {[id            |-> Cardinality(users) + 1,
                          username      |-> name,
                          password_hash |-> hash_password(password, salt),
                          salt          |-> salt]},
              ok    |-> TRUE,
              out   |-> "registered"]

\* login_user: the id of the user, or None
login_user(users, username, password, db_ok) ==
    LET name == validate_username(username).val
    IN  IF ~validate_username(username).ok \/ ~db_ok
        THEN [user_id |-> None, out |-> "login_failed"]
        ELSE IF \E u \in users :
                   /\ u.username = name
                   /\ verify_password(password, u.password_hash, u.salt)
        THEN [user_id |-> (CHOOSE u \in users : u.username = name).id,
              out     |-> "welcome"]
        ELSE [user_id |-> None, out |-> "invalid_username_or_password"]

\* what the authentication loop prints as its options (lines 1183-1185)
AuthMenuShown == {"1", "2", "0"}

\* what can be typed at a menu prompt
Choices == {"help", "0", "1", "2", "3", "9"}

\* lines 1172-1179: create_tables, and the end of main when it raises
MainStart ==
    /\ session.pc = "start"
    /\ \E db_ok \in BOOLEAN :
          LET r == create_tables(schema.pm)
          IN  IF db_ok /\ ~r.raised
              THEN /\ schema' = [schema EXCEPT !.pm = r.schema,
                                               !.op = "create_tables",
                                               !.raised = FALSE,
                                               !.rows = portfolios]
                   /\ session' = [session EXCEPT !.pc = "auth"]
              ELSE /\ schema' = [schema EXCEPT !.op = "create_tables",
                                               !.raised = TRUE,
                                               !.rows = portfolios]
                   /\ session' = [session EXCEPT !.pc = "done",
                                                 !.out = "database_error"]
    /\ UNCHANGED <<pm_vars, tenant, last_st, legacy, checked, scope, now,
                   last_edited_at>>

\* one round of the authentication loop, lines 1182-1218
AuthLoop ==
    /\ session.pc = "auth"
    /\ \E choice \in Choices :
          \/ /\ choice = "help"
             /\ session' = [session EXCEPT !.choice = choice, !.out = "help"]
          \/ /\ choice = "1"
             /\ \E username \in MainUsernames, password \in MainPasswords,
                   db_ok \in BOOLEAN :
                   LET r == login_user(session.users, username, password, db_ok)
                   IN  session' = [session EXCEPT
                                      !.choice = choice,
                                      !.user_id = r.user_id,
                                      !.out = r.out,
                                      !.pc = IF r.user_id = None
                                             THEN "auth" ELSE "menu"]
          \/ /\ choice = "2"
             /\ \E username \in MainUsernames, password \in MainPasswords,
                   confirm \in MainPasswords, salt \in Salts,
                   db_ok \in BOOLEAN :
                   IF password # confirm
                   THEN session' = [session EXCEPT
                                       !.choice = choice,
                                       !.out = "passwords_dont_match"]
                   ELSE LET r == register_user(session.users, username,
                                               password, salt, db_ok)
                        IN  session' = [session EXCEPT !.choice = choice,
                                                       !.users = r.users,
                                                       !.out = r.out]
          \/ /\ choice = "3"
             /\ session' = [session EXCEPT !.choice = choice, !.pc = "done",
                                           !.out = "goodbye"]
          \/ /\ choice \notin {"help", "1", "2", "3"}
             /\ session' = [session EXCEPT !.choice = choice,
                                           !.out = "invalid_choice"]
    /\ UNCHANGED <<pm_vars, tenant, last_st, legacy, checked, schema, scope,
                   now, last_edited_at>>

\* one round of the main menu loop that calls no flow: help, logout, or a
\* choice that is not offered
MainMenu ==
    /\ session.pc = "menu"
    /\ \E choice \in Choices \ {"1", "2", "3"} :
          session' = [session EXCEPT
                         !.choice = choice,
                         !.pc = IF choice = "0" THEN "done" ELSE "menu",
                         !.out = IF choice = "help" THEN "help"
                                 ELSE IF choice = "0" THEN "logged_out"
                                 ELSE "invalid_choice"]
    /\ UNCHANGED <<pm_vars, tenant, last_st, legacy, checked, schema, scope,
                   now, last_edited_at>>

\* main; the choices 1, 2 and 3 of the main menu call the flows with the
\* user who logged in
NextMain ==
    \/ MainStart
    \/ AuthLoop
    \/ MainMenu
    \/ session.pc = "menu" /\ portfolio_creation_flow({session.user_id}, Names, SingleCreationInputs)
    \/ session.pc = "menu" /\ ListPortfolios({session.user_id})
    \/ session.pc = "menu" /\ AddStocks({session.user_id}, Names, SingleTickerLists)
    \/ session.pc = "menu" /\ RemoveStocks({session.user_id}, Names, SingleTickerLists)
    \/ session.pc = "menu" /\ UpdateInterval({session.user_id}, Names, ValidDates)
    \/ session.pc = "menu" /\ ShowPortfolioSummary({session.user_id}, Names)

SpecMain == Init /\ [][NextMain]_vars

\* the shared-store program, one user at the keyboard
Next ==
    \/ portfolio_creation_flow(OneUser, Names, CreationTickerInputs)
    \/ AddStocks(OneUser, Names, TickerLists)
    \/ RemoveStocks(OneUser, Names, TickerLists)
    \/ UpdateInterval(OneUser, Names, DateInputs)
    \/ ShowPortfolioSummary(OneUser, Names)
    \/ GetPortfolioData(OneUser, Names)

Spec == Init /\ [][Next]_vars

\* the three ways a connection and a cursor are opened and let go
NextScopes ==
    \/ GetDbCursor
    \/ UserDbCursor
    \/ PopulatePortfolio(OneUsername, SingleTickerLists)

SpecScopes == Init /\ [][NextScopes]_vars

\* the shared-store program, two users, one ticker
NextOwners ==
    \/ portfolio_creation_flow(Users, Names, SingleCreationInputs)
    \/ AddStocks(Users, Names, SingleTickerLists)
    \/ RemoveStocks(Users, Names, SingleTickerLists)
    \/ UpdateInterval(Users, Names, ValidDates)
    \/ ShowPortfolioSummary(Users, Names)
    \/ GetPortfolioData(Users, Names)

SpecOwners == Init /\ [][NextOwners]_vars

\* the per-user stores: st.py with one user logged in, and the prototype
\* run for that user with at most one ticker
NextIngest ==
    \/ AddStock(OneUsername, RawTickers)
    \/ DeleteStock(OneUsername, RawTickers)
    \/ PopulatePortfolio(OneUsername, SingleTickerLists)

SpecIngest == Init /\ [][NextIngest]_vars

\* the prototype alone, run with ticker lists of any length
NextLegacy == PopulatePortfolio(OneUsername, TickerLists)

SpecLegacy == Init /\ [][NextLegacy]_vars

\* the two programs are separate executables on separate databases: a run is
\* a run of one of them.  Two users of the shared store, or two users of
\* st.py, each with a database of their own
NextTenants ==
    \/ StInit /\ portfolio_creation_flow(Users, Names, SingleCreationInputs)
    \/ StInit /\ AddStocks(Users, Names, SingleTickerLists)
    \/ StInit /\ RemoveStocks(Users, Names, SingleTickerLists)
    \/ StInit /\ UpdateInterval(Users, Names, ValidDates)
    \/ StInit /\ ShowPortfolioSummary(Users, Names)
    \/ StInit /\ GetPortfolioData(Users, Names)
    \/ PmInit /\ AddStock(Usernames, SingleTicker)
    \/ PmInit /\ DeleteStock(Usernames, SingleTicker)

SpecTenants == Init /\ [][NextTenants]_vars


(***************************************************************************)
(* Properties of the shared-store program.  A property about the result of *)
(* one call is stated over every call that could be made in the current    *)
(* state: r is what the handler would return and leave in the store.       *)
(***************************************************************************)
\* the keyword arguments portfolio_creation_flow passes for an interval
FlowKwargs(interval, period, start_dt, end_dt) ==
    IF validate_interval(interval).data_type = "intraday"
    THEN [interval |-> interval, period |-> period,
          start |-> NullDate, end |-> NullDate]
    ELSE [interval |-> interval, period |-> NullPeriod,
          start |-> start_dt, end |-> end_dt]

\* C1: add_stocks on a portfolio whose is_readonly flag is true returns False
\* and leaves the membership of that portfolio as it was, whatever the ticker
\* list, valid or not
C1_AddStocksRefusedOnReadonly ==
    \A row \in portfolios, tickers \in TickerLists, env \in PmEnvs :
        row.is_readonly =>
            LET r == add_stocks(db, row.name, row.user_id, tickers,
                                env.lookup_ok, env.fault)
            IN  /\ r.ret_ok = FALSE
                /\ Members(r.db.s, row.id) = Members(portfolio_stocks, row.id)

C1_Witness ==
    /\ last.op = "add_stocks"
    /\ last.msg = "readonly"
    /\ \E row \in portfolios : row.is_readonly /\ Members(portfolio_stocks, row.id) # {}

\* C2: update_interval on an intraday or read-only portfolio is refused for
\* any pair of dates: it returns False, no fetch is made, and the period, the
\* start and end dates and the membership stay as they were
C2_UpdateRefusedOnReadonly ==
    \A row \in portfolios, start_date \in DateInputs, end_date \in DateInputs,
       env \in PmEnvs :
        (row.data_type = "intraday" \/ row.is_readonly) =>
            LET r == update_interval(db, row.name, row.user_id, start_date,
                                     end_date, today, env.lookup_ok, env.fault,
                                     env.answer)
            IN  /\ r.ret_ok = FALSE
                /\ r.fetch = "none"
                /\ Row(r.db.p, row.id) = row
                /\ Members(r.db.s, row.id) = Members(portfolio_stocks, row.id)

C2_Witness ==
    /\ last.op = "update_interval"
    /\ last.msg = "intraday_readonly"
    /\ \E row \in portfolios : row.data_type = "intraday"

\* C3: every stored portfolio is of one kind: an intraday one is read-only,
\* has a period and no start or end date; an interday one has a start and an
\* end date and no period
C3_WindowMatchesKind ==
    \A row \in portfolios :
        /\ row.data_type \in {"intraday", "interday"}
        /\ row.data_type = "intraday" =>
              /\ row.is_readonly
              /\ row.period # NullPeriod
              /\ row.start_date = NullDate
              /\ row.end_date = NullDate
        /\ row.data_type = "interday" =>
              /\ row.start_date # NullDate
              /\ row.end_date # NullDate
              /\ row.period = NullPeriod

C3_Witness ==
    /\ last.op = "update_interval"
    /\ last.msg = "updated"
    /\ \E row \in portfolios : row.data_type = "interday" /\ row.end_date = today

\* the set of tickers a validated list names
TickerSet(tickers) == Range(Validated(tickers))

\* the calls portfolio_creation_flow can make in the current state
FlowCalls ==
    {c \in [user_id : Users, name : Names, tickers : CreationTickerInputs,
            interval : IntervalInputs, env : PmEnvs] :
        c.env.lookup_ok}

FlowResult(c) ==
    create_portfolio(db, next_id, c.user_id, c.name,
                     [i \in 1..Len(c.tickers) |-> upper(c.tickers[i])],
                     validate_interval(c.interval).data_type,
                     FlowKwargs(c.interval, <<"6", "0", "d">>, 1, 2),
                     c.env.fault, c.env.answer)

\* C4: a create_portfolio call with valid inputs and a fresh name whose
\* historical-data fetch fails still leaves the portfolio row and a membership
\* row for each of its tickers in the store.  The fetch is only reached with
\* valid inputs and a fresh name, and the row of the call has the id handed
\* out last
C4_FetchFailureKeepsPortfolio ==
    (last.op = "create_portfolio" /\ last.fetch = "fail") =>
        /\ \E row \in portfolios : row.id = next_id - 1
        /\ Members(portfolio_stocks, next_id - 1) # {}

\* C5: create_portfolio is all-or-nothing: after any call either the row the
\* call inserts is stored together with a membership row for every validated
\* ticker and its id is returned, or None is returned and the store is as it
\* was before the call, with no row and no membership row of that id
C5_CreateAllOrNothing ==
    \A c \in FlowCalls :
        LET r == FlowResult(c)
        IN  \/ /\ r.ret_id = next_id
               /\ \E row \in r.db.p : row.id = next_id
               /\ Members(r.db.s, next_id) = TickerSet(c.tickers)
            \/ /\ r.ret_id = None
               /\ r.db = db
               /\ ~\E row \in r.db.p : row.id = next_id
               /\ Members(r.db.s, next_id) = {}

\* a creation that broke off at the second membership insert: nothing of it
\* is in the store
C5_Witness ==
    /\ last.op = "create_portfolio"
    /\ last.msg = "dup_name"
    /\ portfolios = {}
    /\ portfolio_stocks = {}
    /\ next_id > 1

\* C6: no two portfolios of one owner share a name; create_portfolio with a
\* name the owner already uses returns None and changes nothing, and a name
\* is free for an owner who does not use it, whoever else does
C6_NameUniquePerOwner ==
    /\ \A a \in portfolios, b \in portfolios :
          (a.user_id = b.user_id /\ a.name = b.name) => a = b
    /\ \A c \in FlowCalls :
          LET r == FlowResult(c)
          IN  IF \E row \in portfolios :
                     row.user_id = c.user_id /\ row.name = c.name
              THEN r.ret_id = None /\ r.db = db
              ELSE (c.env = NoFault /\ AllValid(c.tickers)
                    /\ Cardinality(TickerSet(c.tickers)) = Len(c.tickers))
                   => r.ret_id = next_id

C6_Witness ==
    /\ last.op = "create_portfolio"
    /\ last.msg = "created"
    /\ \E a \in portfolios, b \in portfolios :
          a.name = b.name /\ a.user_id # b.user_id

\* C7: remove_stocks does not look at is_readonly: for any stored portfolio,
\* read-only or not, removing one of its member tickers by its owner deletes
\* that membership, keeps the others and returns True
C7_RemoveAllowedOnReadonly ==
    \A row \in portfolios, t \in RawTickers :
        (upper(t) \in Members(portfolio_stocks, row.id)) =>
            LET r == remove_stocks(db, row.name, row.user_id, <<t>>, TRUE, 0)
            IN  /\ r.ret_ok = TRUE
                /\ Members(r.db.s, row.id) =
                       Members(portfolio_stocks, row.id) \ {upper(t)}
                /\ r.db.p = portfolios

C7_Witness ==
    /\ last.op = "remove_stocks"
    /\ last.msg = "removed"
    /\ \E row \in portfolios : row.is_readonly /\ Members(portfolio_stocks, row.id) = {}

\* C8: on a mutable interday portfolio update_interval returns False and
\* leaves the stored window as it was when start >= end or when end is later
\* than the date of the call; with start < end and end on the date of the
\* call it returns True
C8_BadRangeRefused ==
    \A row \in portfolios, start_date \in ValidDates, end_date \in ValidDates :
        (row.data_type = "interday" /\ ~row.is_readonly) =>
            LET start_dt == validate_date(start_date).val
                end_dt == validate_date(end_date).val
            IN  /\ (start_dt >= end_dt \/ end_dt > today) =>
                      \A env \in PmEnvs :
                          LET r == update_interval(db, row.name, row.user_id,
                                       start_date, end_date, today,
                                       env.lookup_ok, env.fault, env.answer)
                          IN  r.ret_ok = FALSE /\ Row(r.db.p, row.id) = row
                /\ (start_dt < end_dt /\ end_dt = today) =>
                      update_interval(db, row.name, row.user_id, start_date,
                                      end_date, today, TRUE, 0, "rows").ret_ok

C8_Witness ==
    /\ last.op = "update_interval"
    /\ last.msg \in {"start_not_before_end", "end_in_future"}
    /\ \E row \in portfolios : row.data_type = "interday" /\ ~row.is_readonly

\* the window a valid call must leave
WindowIs(p, pid, start_dt, end_dt) ==
    /\ Row(p, pid).start_date = start_dt
    /\ Row(p, pid).end_date = end_dt

\* C9 as written: on a mutable interday portfolio a call with a valid range
\* returns True, leaves the window (start, end) and triggers a refresh fetch,
\* whether that fetch succeeds or fails
C9_RefreshAlways ==
    \A row \in portfolios, start_date \in ValidDates, end_date \in ValidDates,
       env \in {NoFault} \cup ProviderFaults :
        LET start_dt == validate_date(start_date).val
            end_dt == validate_date(end_date).val
            r == update_interval(db, row.name, row.user_id, start_date,
                                 end_date, today, env.lookup_ok, env.fault,
                                 env.answer)
        IN  (/\ row.data_type = "interday" /\ ~row.is_readonly
             /\ start_dt < end_dt /\ end_dt <= today)
            => /\ r.ret_ok = TRUE
               /\ WindowIs(r.db.p, row.id, start_dt, end_dt)
               /\ r.fetch # "none"

\* C9: on a mutable interday portfolio a call with a valid range returns True
\* and leaves the window (start, end); a refresh fetch is triggered exactly
\* when the portfolio has at least one ticker, and its failure changes
\* neither the return value nor the stored window
C9_RefreshWhenTickers ==
    \A row \in portfolios, start_date \in ValidDates, end_date \in ValidDates,
       env \in {NoFault} \cup ProviderFaults :
        LET start_dt == validate_date(start_date).val
            end_dt == validate_date(end_date).val
            r == update_interval(db, row.name, row.user_id, start_date,
                                 end_date, today, env.lookup_ok, env.fault,
                                 env.answer)
        IN  (/\ row.data_type = "interday" /\ ~row.is_readonly
             /\ start_dt < end_dt /\ end_dt <= today)
            => /\ r.ret_ok = TRUE
               /\ WindowIs(r.db.p, row.id, start_dt, end_dt)
               /\ (r.fetch # "none") <=> (Members(portfolio_stocks, row.id) # {})
               /\ (env.answer # "rows" /\ Members(portfolio_stocks, row.id) # {})
                      => r.fetch = "fail"

C9_Witness ==
    /\ last.op = "update_interval"
    /\ last.msg = "updated"
    /\ last.fetch = "fail"
    /\ \E row \in portfolios : row.start_date = 1 /\ row.end_date = today

(***************************************************************************)
(* Properties of the per-user stores                                       *)
(***************************************************************************)
\* the rows of a history whose (ticker, date) key is not in the table
AbsentKeys(tbl, ticker, hist) ==
    {i \in 1..Len(hist) : ~HasKey(tbl, ticker, hist[i].date)}

KeyUnique(tbl) ==
    \A a \in tbl, b \in tbl : (a.ticker = b.ticker /\ a.date = b.date) => a = b

\* C11: a tenant table holds at most one row per (ticker, date); add_stock
\* with a history that has a row for a stored key, whatever values the
\* provider gives for it, keeps the stored row as it is and returns True with
\* no error
C11_KeyUniqueAndKept ==
    /\ \A n \in DOMAIN tenant : KeyUnique(tenant[n])
    /\ \A u \in Usernames, ticker \in RawTickers, hist \in Histories :
          LET name == db_name_for(u)
              r == add_stock(tenant, u, ticker, hist, 0)
          IN  (validate_ticker(ticker).ok /\ hist # <<>>) =>
                 /\ r.ok
                 /\ r.msg \in {"added", "exists"}
                 /\ tenant[name] \subseteq r.tenant[name]
                 /\ KeyUnique(r.tenant[name])

\* the stored row of day 1 is the provider's second answer for that day and
\* the last add_stock found every key taken
C11_Witness ==
    /\ last_st.op = "add_stock"
    /\ last_st.msg = "exists"
    /\ \E r \in tenant[db_name_for("ann")] :
          r.date = 1 /\ r.open = round2(20004) /\ r.volume = 200

\* C12: a run over several tickers treats them independently: when one ticker
\* of the list has no data, or its fetch or an INSERT of it raises, every row
\* the provider gave for the other ticker is in the table afterwards
C12_TickersIndependent ==
    \A u \in Usernames, tickers \in TickerLists :
        (Len(tickers) = 2 /\ upper(tickers[1]) # upper(tickers[2])) =>
            \A hists \in [1..2 -> Histories], k \in 1..2,
               failure \in {"no_data", "error"} :
                LET other == 3 - k
                    given == IF failure = "no_data"
                             THEN [hists EXCEPT ![k] = <<>>] ELSE hists
                    r == populate_portfolio(legacy, u, tickers, given,
                                            IF failure = "error" THEN k ELSE 0)
                IN  \A i \in 1..Len(hists[other]) :
                        HasKey(r[table_name_for(u)], upper(tickers[other]),
                               hists[other][i].date)

\* what the shared store holds for the users other than user_id
OthersOf(d, user_id) ==
    [p |-> {row \in d.p : row.user_id # user_id},
     s |-> {m \in d.s : \E row \in d.p :
                row.id = m.portfolio_id /\ row.user_id # user_id}]

\* C13: no call made by one user changes what another user owns: in the
\* shared store the portfolios and memberships of the other users are the
\* same after create_portfolio, add_stocks, remove_stocks and update_interval;
\* in st.py the tables of the other users' databases are the same after
\* add_stock and delete_stock
C13_TenantIsolation ==
    /\ \A c \in FlowCalls :
          OthersOf(FlowResult(c).db, c.user_id) = OthersOf(db, c.user_id)
    /\ \A user_id \in Users, name \in Names, tickers \in TickerLists,
          env \in PmEnvs :
          /\ OthersOf(add_stocks(db, name, user_id, tickers, env.lookup_ok,
                                 env.fault).db, user_id) = OthersOf(db, user_id)
          /\ OthersOf(remove_stocks(db, name, user_id, tickers, env.lookup_ok,
                                    env.fault).db, user_id) = OthersOf(db, user_id)
    /\ \A user_id \in Users, name \in Names, start_date \in DateInputs,
          end_date \in DateInputs, env \in PmEnvs :
          OthersOf(update_interval(db, name, user_id, start_date, end_date,
                                   today, env.lookup_ok, env.fault,
                                   env.answer).db, user_id) = OthersOf(db, user_id)
    /\ \A u \in Usernames, v \in Usernames, ticker \in RawTickers,
          hist \in Histories, fault \in 0..(MaxRows + 1) :
          v # u =>
          /\ add_stock(tenant, u, ticker, hist, fault).tenant[<<"user_", v>>]
                 = tenant[<<"user_", v>>]
          /\ delete_stock(tenant, u, ticker, fault).tenant[<<"user_", v>>]
                 = tenant[<<"user_", v>>]

\* both users hold a portfolio of the same name with the same ticker, and
\* one of them has just removed it from theirs
C13_Witness ==
    /\ last.op = "remove_stocks"
    /\ last.msg = "removed"
    /\ \E a \in portfolios, b \in portfolios :
          /\ a.user_id # b.user_id
          /\ a.name = b.name
          /\ Members(portfolio_stocks, a.id) = {}
          /\ Members(portfolio_stocks, b.id) # {}

\* the shared store without the rows of the users other than user_id: in it
\* no portfolio of another user exists
OwnOf(d, user_id) ==
    [p |-> d.p \ OthersOf(d, user_id).p, s |-> d.s \ OthersOf(d, user_id).s]

\* C14: a call that names a portfolio the caller does not own has the outcome
\* and the message it has when no user owns a portfolio of that name (False or
\* None, "Portfolio '<name>' not found", no fetch), whatever the other users
\* hold under that name, and it leaves the store as it was
C14_NotOwnedAsNotFound ==
    \A user_id \in Users, name \in Names :
        (~\E row \in portfolios : row.user_id = user_id /\ row.name = name) =>
        LET own == OwnOf(db, user_id)
        IN  /\ \A tickers \in TickerLists, env \in PmEnvs :
                  LET a == add_stocks(db, name, user_id, tickers,
                                      env.lookup_ok, env.fault)
                      r == remove_stocks(db, name, user_id, tickers,
                                         env.lookup_ok, env.fault)
                  IN  /\ a = [db |-> db, ret_ok |-> FALSE, msg |-> "not_found"]
                      /\ r = [db |-> db, ret_ok |-> FALSE, msg |-> "not_found"]
                      /\ a.msg = add_stocks(own, name, user_id, tickers,
                                            env.lookup_ok, env.fault).msg
                      /\ r.msg = remove_stocks(own, name, user_id, tickers,
                                               env.lookup_ok, env.fault).msg
            /\ \A start_date \in DateInputs, end_date \in DateInputs,
                  env \in PmEnvs :
                  LET u == update_interval(db, name, user_id, start_date,
                                           end_date, today, env.lookup_ok,
                                           env.fault, env.answer)
                  IN  /\ u = [db |-> db, ret_ok |-> FALSE, msg |-> "not_found",
                              fetch |-> "none"]
                      /\ u.msg = update_interval(own, name, user_id, start_date,
                                     end_date, today, env.lookup_ok, env.fault,
                                     env.answer).msg
            /\ \A env \in PmEnvs :
                  /\ show_portfolio_summary(db, name, user_id, env.lookup_ok,
                                            env.fault)
                         = [msg |-> "not_found", shown |-> <<>>]
                  /\ show_portfolio_summary(own, name, user_id, env.lookup_ok,
                                            env.fault)
                         = [msg |-> "not_found", shown |-> <<>>]
                  /\ get_portfolio_data(db, name, user_id, env.lookup_ok,
                                        env.fault, env.answer)
                         = [ret |-> "None", msg |-> "not_found", fetch |-> "none"]
                  /\ get_portfolio_data(own, name, user_id, env.lookup_ok,
                                        env.fault, env.answer)
                         = [ret |-> "None", msg |-> "not_found", fetch |-> "none"]

\* the one portfolio named "core" is user 2's, it has a ticker, and the last
\* call was answered "not found"
C14_Witness ==
    /\ last.op \in {"add_stocks", "remove_stocks", "update_interval",
                    "show_portfolio_summary", "get_portfolio_data"}
    /\ last.msg = "not_found"
    /\ \E row \in portfolios :
          /\ row.user_id = 2
          /\ row.name = "core"
          /\ Members(portfolio_stocks, row.id) # {}
    /\ ~\E row \in portfolios : row.user_id = 1

\* C15: the validators run before any store access or provider call: a call
\* with an invalid ticker or an invalid date is answered by the validation
\* error whatever the store holds, with the store as it was and no fetch, and
\* no ticker that fails validate_ticker is ever stored by populate_portfolio
C15_ValidationBeforeStore ==
    /\ \A user_id \in Users, name \in Names, tickers \in TickerLists :
          ~AllValid(tickers) =>
             /\ add_stocks(db, name, user_id, tickers, TRUE, 0)
                    = [db |-> db, ret_ok |-> FALSE, msg |-> "error"]
             /\ remove_stocks(db, name, user_id, tickers, TRUE, 0)
                    = [db |-> db, ret_ok |-> FALSE, msg |-> "error"]
    /\ \A user_id \in Users, name \in Names, start_date \in DateInputs,
          end_date \in DateInputs :
          (~validate_date(start_date).ok \/ ~validate_date(end_date).ok) =>
             update_interval(db, name, user_id, start_date, end_date, today,
                             TRUE, 0, "rows")
                 = [db |-> db, ret_ok |-> FALSE, msg |-> "invalid_input",
                    fetch |-> "none"]
    /\ \A n \in DOMAIN legacy : \A r \in legacy[n] : match_ticker(r.ticker)

(***************************************************************************)
(* Properties of the validators                                            *)
(***************************************************************************)
\* the whole string is one to five upper-case letters: [A-Z]{1,5}
IsTicker(s) == Len(s) \in 1..5 /\ \A i \in 1..Len(s) : s[i] \in UpperLetters

\* C16: validate_ticker accepts a string of one to five upper-case letters
\* and returns it unchanged; what it returns is such a string, and validating
\* it again returns it again; a string with a character that is not a letter,
\* or longer than five characters, is rejected
C16_TickerValidator ==
    (checked.fn = "validate_ticker" /\ checked.made) =>
        /\ IsTicker(checked.arg) => (checked.ok /\ checked.val = checked.arg)
        /\ checked.ok =>
              /\ IsTicker(checked.val)
              /\ validate_ticker(checked.val) = [ok |-> TRUE, val |-> checked.val]
        /\ (\/ Len(checked.arg) > 5
            \/ \E i \in 1..Len(checked.arg) :
                  checked.arg[i] \notin UpperLetters \cup LowerLetters)
              => ~checked.ok

\* str(n): the decimal numeral of a natural number
RECURSIVE numeral(_)
numeral(n) ==
    IF n < 10 THEN <<Digits[n + 1]>>
    ELSE numeral(n \div 10) \o <<Digits[(n % 10) + 1]>>

\* the period "{N}d"
DayPeriod(n) == numeral(n) \o <<"d">>

\* a stored period that is a day count: digits followed by d
IsDayCount(period) ==
    /\ period # NullPeriod
    /\ Len(period) >= 2
    /\ period[Len(period)] = "d"
    /\ \A i \in 1..(Len(period) - 1) : period[i] \in DigitChars

C18_ProvisioningIdempotent ==
    /\ schema.op = "create_tables" =>
          /\ ~schema.raised
          /\ schema.pm = Provisioned
          /\ portfolios = schema.rows
          /\ create_tables(schema.pm) = [schema |-> schema.pm, raised |-> FALSE]
    /\ schema.op = "create_user_tables" =>
          /\ ~schema.raised
          /\ \E n \in DOMAIN schema.st :
                /\ schema.st[n] = StProvisioned
                /\ create_user_tables(schema.st[n]) =
                       [schema |-> schema.st[n], raised |-> FALSE]

\* C19: a mutation of several statements runs in a scope that commits only
\* when its body ran to the end or returned, rolls back when anything
\* raised, and leaves no cursor and no connection open on any exit path
C19_ScopedTransactions ==
    scope.by # "none" =>
        /\ scope.conn \in {"none", "closed"}
        /\ scope.cursor \in {"none", "closed"}
        /\ scope.tx = "committed" <=> ~scope.raised
        /\ scope.raised => scope.tx \in {"none", "rolled_back"}

(***************************************************************************)
(* Deleting a portfolio                                                    *)
(***************************************************************************)
\* the stores one call of a PortfolioManager method can leave, made by the
\* owner of a portfolio on that portfolio.  These are all the methods that
\* write: no method and no menu entry issues DELETE FROM portfolios, so the
\* ON DELETE CASCADE of portfolio_stocks (line 892) is never triggered
CallOutcomes(row) ==
    {add_stocks(db, row.name, row.user_id, tickers, env.lookup_ok,
                env.fault).db : tickers \in TickerLists, env \in PmEnvs}
    \cup
    {remove_stocks(db, row.name, row.user_id, tickers, env.lookup_ok,
                   env.fault).db : tickers \in TickerLists, env \in PmEnvs}
    \cup
    {update_interval(db, row.name, row.user_id, dates[1], dates[2], today,
                     env.lookup_ok, env.fault, env.answer).db :
         dates \in DateInputs \X DateInputs, env \in PmEnvs}
    \cup
    {FlowResult(c).db : c \in {f \in FlowCalls : f.user_id = row.user_id}}

\* C20: every stored portfolio, read-only or not, can be deleted: some call
\* of its owner leaves the store without its row and without any of its
\* membership rows, and in that store the owner can create a portfolio of
\* the same name
C20_DeleteCascades ==
    \A row \in portfolios :
        \E d \in CallOutcomes(row) :
            /\ ~\E r \in d.p : r.id = row.id
            /\ Members(d.s, row.id) = {}
            /\ create_portfolio(d, next_id, row.user_id, row.name, <<<<"A">>>>,
                                row.data_type,
                                [interval |-> row.interval_str,
                                 period |-> row.period,
                                 start |-> row.start_date,
                                 end |-> row.end_date],
                                0, "rows").ret_id # None

(***************************************************************************)
(* Properties of the membership operations                                 *)
(***************************************************************************)
\* C21: add_stocks on a mutable portfolio with a list of valid tickers skips
\* the tickers that are members already or repeat in the list without
\* failing: the membership afterwards is the old one united with the list,
\* no other row of the store changes, and True is returned exactly when a
\* ticker was newly added
C21_ContinueOnDuplicate ==
    \A row \in portfolios, tickers \in TickerLists :
        (~row.is_readonly /\ AllValid(tickers)) =>
            LET r == add_stocks(db, row.name, row.user_id, tickers, TRUE, 0)
                old == Members(portfolio_stocks, row.id)
            IN  /\ r.msg # "error"
                /\ Members(r.db.s, row.id) = old \cup TickerSet(tickers)
                /\ r.ret_ok <=> (TickerSet(tickers) \ old # {})
                /\ r.db.p = portfolios
                /\ \A other \in portfolios :
                      other.id # row.id =>
                          Members(r.db.s, other.id) =
                              Members(portfolio_stocks, other.id)

\* a batch of members only went through without an error
C21_Witness ==
    /\ last.op = "add_stocks"
    /\ last.msg = "none_added"
    /\ \E row \in portfolios :
          ~row.is_readonly /\ Members(portfolio_stocks, row.id) # {}

(***************************************************************************)
(* Properties of the provider calls                                        *)
(***************************************************************************)
\* C22: fetch_data returns only when the provider gave rows and raises
\* otherwise; a provider answer without rows makes get_portfolio_data and
\* update_interval end without data, and add_stock of st.py end with False
\* and no row written
C22_NoEmptyResult ==
    /\ \A answer \in ProviderAnswers :
          /\ fetch_data(answer) \in {"ok", "fail"}
          /\ fetch_data(answer) = "ok" <=> answer = "rows"
    /\ \A row \in portfolios :
          /\ Members(portfolio_stocks, row.id) # {} =>
                get_portfolio_data(db, row.name, row.user_id, TRUE, 0, "empty")
                    = [ret |-> "None", msg |-> "error", fetch |-> "fail"]
          /\ \A start_date \in ValidDates, end_date \in ValidDates :
                update_interval(db, row.name, row.user_id, start_date, end_date,
                                today, TRUE, 0, "empty").fetch \in {"fail", "none"}
    /\ \A current_user \in Usernames, ticker \in RawTickers :
          LET r == add_stock(tenant, current_user, ticker, <<>>, 0)
          IN  r.tenant = tenant /\ ~r.ok /\ r.inserted = 0
    /\ (last_st.op = "add_stock" /\ last_st.msg = "no_data") =>
          last_st.inserted = 0

\* get_portfolio_data ended on a failed fetch
C22_Witness ==
    /\ last.op = "get_portfolio_data"
    /\ last.fetch = "fail"
    /\ last.msg = "error"

(***************************************************************************)
(* Properties of the listing                                               *)
(***************************************************************************)
\* the listings of a user after a call that left the rows p, made a second
\* after the last edit
ListedAfter(p, user_id) ==
    list_portfolios(p, on_update(portfolios, p, last_edited_at, now + 1), user_id)

\* C23: list_portfolios gives exactly the names of the owner's portfolios,
\* most recently edited first, and a successful add_stocks, remove_stocks or
\* update_interval on a portfolio makes it the first of the list
C23_ListedByLastEdit ==
    \A user_id \in Users :
        /\ \A listing \in list_portfolios(portfolios, last_edited_at, user_id) :
              /\ Range(listing) =
                     {row.name : row \in {x \in portfolios : x.user_id = user_id}}
              /\ Len(listing) = Cardinality(Range(listing))
        /\ \A row \in {x \in portfolios : x.user_id = user_id} :
              /\ \A tickers \in SingleTickerLists :
                    LET r == add_stocks(db, row.name, user_id, tickers, TRUE, 0)
                    IN  r.ret_ok => \A listing \in ListedAfter(r.db.p, user_id) :
                                        listing[1] = row.name
              /\ \A tickers \in SingleTickerLists :
                    LET r == remove_stocks(db, row.name, user_id, tickers, TRUE, 0)
                    IN  r.ret_ok => \A listing \in ListedAfter(r.db.p, user_id) :
                                        listing[1] = row.name
              /\ \A start_date \in ValidDates, end_date \in ValidDates :
                    LET r == update_interval(db, row.name, user_id, start_date,
                                             end_date, today, TRUE, 0, "rows")
                    IN  r.ret_ok => \A listing \in ListedAfter(r.db.p, user_id) :
                                        listing[1] = row.name

(***************************************************************************)
(* Properties of the failures of the store                                 *)
(***************************************************************************)
\* C24: when the store cannot be reached during add_stocks, remove_stocks,
\* update_interval or show_portfolio_summary on a stored portfolio, the call
\* ends with the error reported, not with the outcome of a portfolio that
\* does not exist
C24_UnreachableSurfaced ==
    \A row \in portfolios, tickers \in TickerLists, start_date \in ValidDates,
       end_date \in ValidDates :
        /\ add_stocks(db, row.name, row.user_id, tickers, FALSE, 0).msg
               \notin {"not_found", "not_found_or_denied"}
        /\ remove_stocks(db, row.name, row.user_id, tickers, FALSE, 0).msg
               \notin {"not_found", "not_found_or_denied"}
        /\ update_interval(db, row.name, row.user_id, start_date, end_date,
                           today, FALSE, 0, "rows").msg
               \notin {"not_found", "not_found_or_denied"}
        /\ show_portfolio_summary(db, row.name, row.user_id, FALSE, 0).msg
               \notin {"not_found", "not_found_or_denied"}

\* C25: a store statement that raises inside create_portfolio, add_stocks,
\* remove_stocks or update_interval ends that call only: the call returns
\* None or False, nothing it wrote stays, and the store is the one the next
\* call would have found without it.  A fault at a statement the call does
\* not reach changes nothing of the call
C25_FailureAbortsOnlyCall ==
    \A env \in StoreFaults :
        /\ \A c \in {f \in FlowCalls : f.env = env} :
              LET r == FlowResult(c)
              IN  \/ r.ret_id = None /\ r.db = db
                  \/ /\ env.fault # 1
                     /\ r = FlowResult([c EXCEPT !.env = NoFault])
        /\ \A row \in portfolios, tickers \in TickerLists :
              /\ LET r == add_stocks(db, row.name, row.user_id, tickers, TRUE,
                                     env.fault)
                 IN  \/ r.ret_ok = FALSE /\ r.db = db
                     \/ /\ env.fault # 1
                        /\ r = add_stocks(db, row.name, row.user_id, tickers,
                                          TRUE, 0)
              /\ LET r == remove_stocks(db, row.name, row.user_id, tickers,
                                        TRUE, env.fault)
                 IN  \/ r.ret_ok = FALSE /\ r.db = db
                     \/ /\ env.fault # 1
                        /\ r = remove_stocks(db, row.name, row.user_id, tickers,
                                             TRUE, 0)
        /\ \A row \in portfolios, start_date \in DateInputs,
              end_date \in DateInputs :
              LET r == update_interval(db, row.name, row.user_id, start_date,
                                       end_date, today, TRUE, env.fault, "rows")
              IN  \/ r.ret_ok = FALSE /\ r.db = db
                  \/ /\ env.fault # 1
                     /\ r = update_interval(db, row.name, row.user_id,
                                            start_date, end_date, today, TRUE,
                                            0, "rows")

\* an add_stocks that raised after its SELECT left the members as they were
C25_Witness ==
    /\ last.op = "add_stocks"
    /\ last.msg = "error"
    /\ \E row \in portfolios :
          ~row.is_readonly /\ Members(portfolio_stocks, row.id) # {}

\* C26: remove_stocks with a list of valid tickers leaves the membership of
\* the portfolio as the old one minus the list and every other portfolio as
\* it was; a listed ticker that is not a member is reported without an
\* error, and True is returned exactly when a membership was removed
C26_RemoveIsSetDifference ==
    \A row \in portfolios, tickers \in TickerLists :
        AllValid(tickers) =>
            LET r == remove_stocks(db, row.name, row.user_id, tickers, TRUE, 0)
                old == Members(portfolio_stocks, row.id)
            IN  /\ r.msg \in {"removed", "none_removed"}
                /\ Members(r.db.s, row.id) = old \ TickerSet(tickers)
                /\ r.ret_ok <=> (old \cap TickerSet(tickers) # {})
                /\ r.db.p = portfolios
                /\ \A other \in portfolios :
                      other.id # row.id =>
                          Members(r.db.s, other.id) =
                              Members(portfolio_stocks, other.id)

\* a remove_stocks of a ticker that was not a member, beside a portfolio of
\* another owner that has members
C26_Witness ==
    /\ last.op = "remove_stocks"
    /\ last.msg = "none_removed"
    /\ \E a \in portfolios, b \in portfolios :
          /\ a.id # b.id
          /\ Members(portfolio_stocks, a.id) = {}
          /\ Members(portfolio_stocks, b.id) # {}

(***************************************************************************)
(* Properties of the creation                                              *)
(***************************************************************************)
\* C27: create_portfolio reports that the name already exists exactly when
\* the owner has a portfolio of that name: never for a fresh name, whatever
\* the ticker list, and always, when the store works, for a name in use
C27_DuplicateNameReport ==
    \A c \in FlowCalls :
        LET r == FlowResult(c)
            in_use == \E row \in portfolios :
                         row.user_id = c.user_id /\ row.name = c.name
        IN  /\ r.msg = "dup_name" => in_use
            /\ (in_use /\ c.env = NoFault /\ AllValid(c.tickers)) =>
                  r.msg = "dup_name"

\* C28: data_type and is_readonly are set by the creation and by nothing
\* else: in every step of every operation each stored portfolio stays stored
\* with the data_type and the is_readonly it had
C28_KindFixedAtCreation ==
    [][\A row \in portfolios :
           \E after \in portfolios' :
               /\ after.id = row.id
               /\ after.data_type = row.data_type
               /\ after.is_readonly = row.is_readonly]_vars

\* a mutable portfolio after a window update that went through
C28_Witness ==
    /\ last.op = "update_interval"
    /\ last.msg = "updated"
    /\ \E row \in portfolios :
          row.data_type = "interday" /\ ~row.is_readonly /\ row.start_date = 1

\* C29: every stored interday portfolio has a window with start_date before
\* end_date and end_date not later than the day the window was written (the
\* day of the run), whether portfolio_creation_flow or update_interval wrote
\* it
C29_WindowWellFormed ==
    \A row \in portfolios :
        row.data_type = "interday" =>
            /\ row.start_date < row.end_date
            /\ row.end_date <= today

(***************************************************************************)
(* Properties of main                                                      *)
(***************************************************************************)
\* C30: every option the authentication menu shows is handled, and the
\* shown Exit option 0 ends the program: after 0 is chosen main has
\* returned, and no shown option is answered with "Invalid choice"
C30_ExitOptionExits ==
    /\ session.choice = "0" => session.pc = "done"
    /\ session.choice \in AuthMenuShown => session.out # "invalid_choice"

====
